---- MODULE Spec2Model ----
(***************************************************************************)
(* A model of tworoutine.py: the dual-mode callable `tworoutine`, its      *)
(* descriptor binding (__get__), its synchronous call (__call__), its      *)
(* projection (~, __invert__), and the event loop it drives coroutines on. *)
(***************************************************************************)
EXTENDS Integers, Sequences, FiniteSets, TLC

\* ------------------------------------------------------------------ bounds
MaxObjs == 2        \* tworoutine objects alive in one run
MaxArg  == 2        \* the numeric argument ranges over 1..MaxArg

\* ------------------------------------------------------- values and kinds
NoneV     == "None"
Owner     == "C"                          \* the class whose body holds the methods
Instances == {"o1", "oEmpty"}             \* oEmpty: an instance whose truth value is False
Truthy(r) == r \notin {NoneV, "oEmpty"}   \* `if self.instance:`

Kinds == {"function", "method", "classmethod", "staticmethod"}

\* The coroutine functions of the program text.  "double" is the tests'
\* `await sleep; return 2 * arg`; "raise" raises ValueError(arg) after the
\* sleep; "nest" calls its own tworoutine synchronously on arg - 1 while
\* arg > 1 and returns that result + 1, and returns 2 * arg at arg = 1.
Definitions ==
    [kind : Kinds, body : {"double"}] \cup [kind : {"function"}, body : {"raise", "nest"}]

NoFac  == [kind |-> "none", body |-> "none", target |-> 0]
NoCoro == [body |-> "none", recv |-> NoneV, arg |-> 0, target |-> 0]

\* the caller passes (x), or (o1, x) to an unbound method
ArgTuples == [recv : {NoneV, "o1"}, arg : 1..MaxArg]
NoArgs    == [recv |-> NoneV, arg |-> 0]

NoOut          == [tag |-> "none", kind |-> "", val |-> 0]
Returned(v)    == [tag |-> "return", kind |-> "", val |-> v]
Raised(k, p)   == [tag |-> "raise", kind |-> k, val |-> p]

VARIABLES
    objs,            \* heap of tworoutine objects: id -> [coroutine, instance]
    made,            \* id -> the coroutine argument __init__ received
    patched,         \* nest_asyncio.apply() has run in this process
    threadLoop,      \* the thread's current event loop: "thread" or "None"
    staticCallable,  \* the interpreter makes staticmethod objects callable (>= 3.10)
    stack,           \* call frames of calls in progress, outermost first
    ret,             \* what the last completed top-level operation produced
    prev             \* the completed call before, when it was the same call in the other mode

vars == <<objs, made, patched, threadLoop, staticCallable, stack, ret, prev>>

EmptyRet ==
    [op |-> "none", t |-> 0, inst |-> NoneV, res |-> 0, exc |-> "", fac |-> NoFac,
     args |-> NoArgs, mode |-> "", out |-> NoOut, raw |-> NoOut, ninv |-> 0,
     loop |-> NoneV, had |-> NoneV, created |-> FALSE, coro |-> NoCoro]

\* ------------------------------------------------------------- tworoutine
\* __init__: store the coroutine and the instance.
tworoutine(coroutine, instance) == [coroutine |-> coroutine, instance |-> instance]

\* __init__ ends by nest_asyncio.apply(): the loop class is patched from then on.
ApplyNestOff(p) == p
ApplyNest(p) == TRUE

\* __invert__: the stored coroutine.
invertBound(obj) ==
    IF obj.instance # NoneV THEN [obj.coroutine EXCEPT !.kind = "function"] ELSE obj.coroutine
invert(obj) == obj.coroutine

\* __get__: what the attribute access yields.
\*   "self"  : the object itself            (instance is None)
\*   "raise" : self.instance.__get__ is looked up on an ordinary receiver,
\*             which has no such attribute   (self.instance is truthy)
\*   "new"   : a new tworoutine around the same coroutine, holding instance
GetResult(heap, t, instance) ==
    IF instance = NoneV THEN [tag |-> "self", res |-> t, exc |-> ""]
    ELSE IF Truthy(heap[t].instance) THEN [tag |-> "raise", res |-> 0, exc |-> "AttributeError"]
    ELSE [tag |-> "new", res |-> Len(heap) + 1, exc |-> ""]

\* __get__: the heap after the attribute access.
GetHeapInPlace(heap, t, instance) ==
    IF GetResult(heap, t, instance).tag = "new"
    THEN Append([heap EXCEPT ![t].instance = instance],
                tworoutine(invert(heap[t]), instance))
    ELSE heap
GetHeap(heap, t, instance) ==
    IF GetResult(heap, t, instance).tag = "new"
    THEN Append(heap, tworoutine(invert(heap[t]), instance))
    ELSE heap

\* ------------------------------------------------- calling the coroutine
\* Calling the plain `async def`: the positional arguments must match the
\* parameters ((arg) or (self/cls, arg)); the result is a coroutine object.
CallFunction(fac, args) ==
    IF (fac.kind \in {"method", "classmethod"}) = (args.recv # NoneV)
    THEN [ok |-> TRUE, exc |-> NoOut,
          coro |-> [body |-> fac.body, recv |-> args.recv, arg |-> args.arg,
                    target |-> fac.target]]
    ELSE [ok |-> FALSE, exc |-> Raised("TypeError", 0), coro |-> NoCoro]

\* (~self)(*args): the stored object is called as it is.  A plain function is
\* called; a classmethod object is not callable; a staticmethod object is
\* callable only on interpreters that make it so.
Invoke(fac, args, sc) ==
    CASE fac.kind \in {"function", "method"} -> CallFunction(fac, args)
      [] fac.kind = "staticmethod" ->
            IF sc THEN CallFunction(fac, args)
            ELSE [ok |-> FALSE, exc |-> Raised("TypeError", 0), coro |-> NoCoro]
      [] OTHER -> [ok |-> FALSE, exc |-> Raised("TypeError", 0), coro |-> NoCoro]

\* __call__ hands its own arguments to ~self unchanged.
PassArgsBound(obj, args) ==
    IF obj.instance # NoneV /\ args.recv = NoneV THEN [args EXCEPT !.recv = obj.instance] ELSE args
PassArgs(obj, args) == args

\* __call__ returns what run_until_complete returns, or lets its failure through.
CallResultSwallow(raw) == IF raw.tag = "raise" THEN Returned(0) ELSE raw
CallResult(raw) == raw

\* try get_event_loop() except RuntimeError: new_event_loop()
AcquireLoopAlwaysNew(active) == [loop |-> "new", created |-> TRUE]
AcquireLoop(active) ==
    IF active # NoneV THEN [loop |-> active, created |-> FALSE]
    ELSE [loop |-> "new", created |-> TRUE]

\* ------------------------------------------------------------ event loop
Driving(f) == f.pc \in {"start", "suspended", "inner"}

\* The loop that is running on this thread: every frame below the top one is
\* inside run_until_complete.
RunningLoop(stk) ==
    IF \E i \in 1..Len(stk) : Driving(stk[i])
    THEN stk[CHOOSE i \in 1..Len(stk) :
                 Driving(stk[i]) /\ \A j \in 1..Len(stk) : Driving(stk[j]) => j <= i].loop
    ELSE NoneV

\* asyncio.get_event_loop(): the running loop, else the thread's loop, else
\* RuntimeError (NoneV here).
GetEventLoop(stk, tl) == IF RunningLoop(stk) # NoneV THEN RunningLoop(stk) ELSE tl

\* run_until_complete refuses to start while a loop runs, unless patched.
CheckRunning(stk, p) ==
    IF RunningLoop(stk) # NoneV /\ ~p THEN Raised("RuntimeError", 0) ELSE NoOut

\* ------------------------------------------------------------------ frames
Frame(mode, t, args) ==
    [mode |-> mode, t |-> t, args |-> args, pc |-> "acquire", loop |-> NoneV,
     had |-> NoneV, created |-> FALSE, ninv |-> 0, coro |-> NoCoro,
     raw |-> NoOut, out |-> NoOut]

Top == stack[Len(stack)]
SetTop(f) == [stack EXCEPT ![Len(stack)] = f]

Init ==
    /\ objs = <<>>
    /\ made = <<>>
    /\ patched = FALSE
    /\ threadLoop \in {NoneV, "thread"}
    /\ staticCallable \in BOOLEAN
    /\ stack = <<>>
    /\ ret = EmptyRet
    /\ prev = EmptyRet

\* @tworoutine on a definition of the program text
Decorate(d) ==
    /\ stack = <<>>
    /\ Len(objs) < MaxObjs
    /\ LET fac == [kind |-> d.kind, body |-> d.body,
                   target |-> IF d.body = "nest" THEN Len(objs) + 1 ELSE 0]
       IN /\ objs' = Append(objs, tworoutine(fac, NoneV))
          /\ made' = Append(made, fac)
          /\ ret' = [EmptyRet EXCEPT !.op = "init", !.res = Len(objs) + 1]
    /\ patched' = ApplyNest(patched)
    /\ prev' = EmptyRet
    /\ UNCHANGED <<threadLoop, staticCallable, stack>>

\* reading object t as an attribute: t.__get__(instance, Owner)
Get(t, instance) ==
    /\ stack = <<>>
    /\ LET r == GetResult(objs, t, instance)
       IN /\ r.tag = "new" => Len(objs) < MaxObjs
          /\ objs' = GetHeap(objs, t, instance)
          /\ made' = IF r.tag = "new" THEN Append(made, invert(objs[t])) ELSE made
          /\ patched' = IF r.tag = "new" THEN ApplyNest(patched) ELSE patched
          /\ ret' = [EmptyRet EXCEPT !.op = "get", !.t = t, !.inst = instance,
                                     !.res = r.res, !.exc = r.exc]
    /\ prev' = EmptyRet
    /\ UNCHANGED <<threadLoop, staticCallable, stack>>

\* ~t on its own
Invert(t) ==
    /\ stack = <<>>
    /\ ret' = [EmptyRet EXCEPT !.op = "invert", !.t = t, !.fac = invert(objs[t])]
    /\ prev' = EmptyRet
    /\ UNCHANGED <<objs, made, patched, threadLoop, staticCallable, stack>>

\* the observation kept across the start of a call
KeepPrev(t, args, mode) ==
    IF ret.op = "call" /\ ret.t = t /\ ret.args = args /\ ret.mode # mode THEN ret ELSE EmptyRet

\* t(*args): __call__ entered
SyncCall(t, args) ==
    /\ stack = <<>>
    /\ stack' = <<Frame("sync", t, args)>>
    /\ prev' = KeepPrev(t, args, "sync")
    /\ ret' = EmptyRet
    /\ UNCHANGED <<objs, made, patched, threadLoop, staticCallable>>

\* asyncio.new_event_loop().run_until_complete((~t)(*args)): the loop is made first
AsyncCall(t, args) ==
    /\ stack = <<>>
    /\ stack' = <<[Frame("async", t, args) EXCEPT !.pc = "invoke", !.loop = "new",
                                                  !.created = TRUE]>>
    /\ prev' = KeepPrev(t, args, "async")
    /\ ret' = EmptyRet
    /\ UNCHANGED <<objs, made, patched, threadLoop, staticCallable>>

\* __call__: the try/except around get_event_loop
Acquire ==
    /\ stack # <<>>
    /\ Top.pc = "acquire"
    /\ LET had == GetEventLoop(stack, threadLoop)
           r   == AcquireLoop(had)
       IN stack' = SetTop([Top EXCEPT !.pc = "invoke", !.had = had, !.loop = r.loop,
                                      !.created = r.created])
    /\ UNCHANGED <<objs, made, patched, threadLoop, staticCallable, ret, prev>>

\* coroutine = (~self)(*args, **kwargs)
InvokeStep ==
    /\ stack # <<>>
    /\ Top.pc = "invoke"
    /\ LET obj == objs[Top.t]
           a   == IF Top.mode = "sync" THEN PassArgs(obj, Top.args) ELSE Top.args
           r   == Invoke(invert(obj), a, staticCallable)
       IN stack' = SetTop([Top EXCEPT !.ninv = @ + 1, !.coro = r.coro, !.out = r.exc,
                                      !.pc = IF r.ok THEN "drive" ELSE "exit"])
    /\ UNCHANGED <<objs, made, patched, threadLoop, staticCallable, ret, prev>>

\* loop.run_until_complete(coroutine) entered
Drive ==
    /\ stack # <<>>
    /\ Top.pc = "drive"
    /\ LET c == CheckRunning(stack, patched)
       IN stack' = SetTop([Top EXCEPT !.out = c,
                                      !.pc = IF c.tag = "raise" THEN "exit" ELSE "start"])
    /\ UNCHANGED <<objs, made, patched, threadLoop, staticCallable, ret, prev>>

\* the coroutine runs up to its await asyncio.sleep
CoroStart ==
    /\ stack # <<>>
    /\ Top.pc = "start"
    /\ stack' = SetTop([Top EXCEPT !.pc = "suspended"])
    /\ UNCHANGED <<objs, made, patched, threadLoop, staticCallable, ret, prev>>

\* the coroutine is resumed and runs the rest of its body
CoroResume ==
    /\ stack # <<>>
    /\ Top.pc = "suspended"
    /\ LET c == Top.coro
       IN CASE c.body = "raise" ->
                 stack' = SetTop([Top EXCEPT !.raw = Raised("ValueError", c.arg), !.pc = "exit"])
            [] c.body = "nest" /\ c.arg > 1 ->
                 stack' = Append(SetTop([Top EXCEPT !.pc = "inner"]),
                                 Frame("sync", c.target, [recv |-> NoneV, arg |-> c.arg - 1]))
            [] OTHER ->
                 stack' = SetTop([Top EXCEPT !.raw = Returned(2 * c.arg), !.pc = "exit"])
    /\ UNCHANGED <<objs, made, patched, threadLoop, staticCallable, ret, prev>>

\* what the call surfaces: its own failure, else the computation's outcome
Surfaced(f) ==
    IF f.out.tag # "none" THEN f.out
    ELSE IF f.mode = "sync" THEN CallResult(f.raw) ELSE f.raw

\* the nested call returns into the body that made it: `return inner + 1`
Return ==
    /\ Len(stack) > 1
    /\ Top.pc = "exit"
    /\ LET o == Surfaced(Top)
           p == stack[Len(stack) - 1]
           q == [p EXCEPT !.raw = IF o.tag = "return" THEN Returned(o.val + 1) ELSE o,
                          !.pc = "exit"]
       IN stack' = [SubSeq(stack, 1, Len(stack) - 1) EXCEPT ![Len(stack) - 1] = q]
    /\ UNCHANGED <<objs, made, patched, threadLoop, staticCallable, ret, prev>>

\* the outermost call returns to its caller
Finish ==
    /\ Len(stack) = 1
    /\ Top.pc = "exit"
    /\ ret' = [EmptyRet EXCEPT !.op = "call", !.t = Top.t, !.args = Top.args,
                               !.mode = Top.mode, !.out = Surfaced(Top), !.raw = Top.raw,
                               !.ninv = Top.ninv, !.loop = Top.loop, !.had = Top.had,
                               !.created = Top.created, !.coro = Top.coro]
    /\ stack' = <<>>
    /\ UNCHANGED <<objs, made, patched, threadLoop, staticCallable, prev>>

Next ==
    \/ \E d \in Definitions : Decorate(d)
    \/ \E t \in 1..Len(objs), i \in Instances \cup {NoneV} : Get(t, i)
    \/ \E t \in 1..Len(objs) : Invert(t)
    \/ \E t \in 1..Len(objs), a \in ArgTuples : SyncCall(t, a)
    \/ \E t \in 1..Len(objs), a \in ArgTuples : AsyncCall(t, a)
    \/ Acquire
    \/ InvokeStep
    \/ Drive
    \/ CoroStart
    \/ CoroResume
    \/ Return
    \/ Finish

Spec == Init /\ [][Next]_vars

\* ------------------------------------------------------------ expectations
\* The value each body computes from its argument.
Expected(c) ==
    CASE c.body = "double" -> Returned(2 * c.arg)
      [] c.body = "raise"  -> Raised("ValueError", c.arg)
      [] c.body = "nest"   -> Returned(c.arg + 1)
      [] OTHER             -> NoOut

IsCall(r) == r.op = "call"

\* a completed call made with the caller's single argument on an object whose
\* wrapped definition is of kind k and doubles its argument
DoublingCall(r, k) ==
    /\ IsCall(r)
    /\ r.args.recv = NoneV
    /\ objs[r.t].coroutine.kind = k
    /\ objs[r.t].coroutine.body = "double"

\* C1: the synchronous call t(*a) and the asynchronous path
\* run_until_complete((~t)(*a)) of the same tworoutine and the same arguments
\* produce the same outcome.
C1_SyncAsyncAgree ==
    (IsCall(ret) /\ IsCall(prev) /\ ret.t = prev.t /\ ret.args = prev.args
       /\ ret.mode # prev.mode)
    => ret.out = prev.out

C1_Witness ==
    /\ IsCall(ret) /\ IsCall(prev)
    /\ ret.mode = "async" /\ prev.mode = "sync"
    /\ ret.args = [recv |-> NoneV, arg |-> 2]
    /\ prev.out = Returned(4)

\* C2: a tworoutine around a plain (self, arg) method, read as an attribute of
\* an instance o and called with x by either convention, runs the method with
\* o as first argument and x as second and yields 2 * x.
C2_InstanceMethodReceiver ==
    (DoublingCall(ret, "method") /\ objs[ret.t].instance \in Instances)
    => (ret.out = Returned(2 * ret.args.arg) /\ ret.coro.recv = objs[ret.t].instance)

\* C3: a tworoutine around a classmethod, reached through an instance or
\* through the class and called with x by either convention, runs the method
\* with the owning class as first argument and yields 2 * x.
C3_ClassMethodReceiver ==
    DoublingCall(ret, "classmethod")
    => (ret.out = Returned(2 * ret.args.arg) /\ ret.coro.recv = Owner)

\* C4: a tworoutine around a staticmethod, reached through an instance or
\* through the class and called with x by either convention, runs the function
\* with exactly x, no receiver injected, and yields 2 * x.
C4_StaticMethodNoReceiver ==
    DoublingCall(ret, "staticmethod")
    => (ret.out = Returned(2 * ret.args.arg) /\ ret.coro.recv = NoneV
        /\ ret.coro.arg = ret.args.arg)

\* C5: a synchronous call made from inside a coroutine that the thread's loop
\* is already driving, at any depth, never fails with the loop-already-running
\* RuntimeError and never blocks; the inner call ends with the value of its
\* computation, and the outer computation then ends with its own.
C5_ReentrantDrive ==
    /\ \A i \in 1..Len(stack) :
          /\ stack[i].out.kind # "RuntimeError"
          /\ (i > 1 /\ stack[i].pc = "exit") => Surfaced(stack[i]) = Expected(stack[i].coro)
    /\ stack # <<>> =>
          ENABLED (Acquire \/ InvokeStep \/ Drive \/ CoroStart \/ CoroResume \/ Return \/ Finish)
    /\ (IsCall(ret) /\ ret.coro.body = "nest") => ret.out = Expected(ret.coro)

C5_Witness ==
    /\ Len(stack) >= 2
    /\ Top.pc = "exit"
    /\ Top.loop = stack[1].loop
    /\ Top.raw = Returned(2)

\* C6: when the computation the factory produced raises K(P), the call
\* surfaces exactly K(P) by either convention, after a single invocation of
\* the factory.
C6_FailurePassThrough ==
    (IsCall(ret) /\ ret.raw.tag = "raise") => (ret.out = ret.raw /\ ret.ninv = 1)

C6_Witness ==
    /\ IsCall(ret) /\ IsCall(prev)
    /\ ret.mode = "sync"
    /\ ret.raw = Raised("ValueError", 2)
    /\ prev.raw = Raised("ValueError", 2)

\* C7: reading an already bound tworoutine (its instance field holds a
\* receiver) as an attribute with a concrete receiver raises nothing and
\* returns that same object.
C7_BoundGetUnchanged ==
    (ret.op = "get" /\ ret.inst # NoneV /\ objs[ret.t].instance # NoneV)
    => (ret.exc = "" /\ ret.res = ret.t)

\* C8: no step changes the fields of a tworoutine that already exists, and an
\* attribute access that returns gives back either an object that existed
\* before the access or the one object the access created.
C8_BindingNeverMutates ==
    [][ /\ Len(objs') >= Len(objs)
        /\ \A id \in 1..Len(objs) : objs'[id] = objs[id]
        /\ (ret'.op = "get" /\ ret'.exc = "") =>
              \/ ret'.res \in 1..Len(objs)
              \/ (ret'.res = Len(objs) + 1 /\ Len(objs') = Len(objs) + 1)
      ]_vars

C8_Witness ==
    /\ ret.op = "get"
    /\ ret.inst = "o1"
    /\ ret.res = Len(objs)
    /\ ret.res # ret.t
    /\ objs[ret.t].instance = NoneV
    /\ objs[ret.res].instance = "o1"

\* C9: in every state ~c is the coroutine c was constructed with, and a step
\* that evaluates ~c starts no call (no factory invocation, no loop
\* acquisition) and leaves every object and the loop patch as they were.
C9_InvertPureProjection ==
    [][ /\ \A id \in 1..Len(objs') : invert(objs'[id]) = made'[id]
        /\ ret'.op = "invert" =>
              /\ ret'.fac = made[ret'.t]
              /\ objs' = objs /\ made' = made /\ stack' = stack /\ patched' = patched
      ]_vars

C9_Witness ==
    /\ ret.op = "invert"
    /\ objs[ret.t].instance = "o1"
    /\ ret.fac = made[ret.t]
    /\ ret.fac.kind = "method"

\* C10: a synchronous call drives its computation on the loop the thread
\* already has when it has one, and on a loop it creates itself when it has
\* none, without failing for the lack of one; the factory is invoked once, and
\* only after the loop is in hand.
LoopAcquired(f) ==
    /\ f.loop # NoneV
    /\ f.had # NoneV => (f.loop = f.had /\ ~f.created)
    /\ f.had = NoneV => (f.loop = "new" /\ f.created)

C10_SchedulerAcquisition ==
    /\ \A i \in 1..Len(stack) :
          stack[i].mode = "sync" =>
             /\ stack[i].ninv <= 1
             /\ stack[i].ninv > 0 => LoopAcquired(stack[i])
             /\ stack[i].pc # "acquire" => LoopAcquired(stack[i])
             /\ stack[i].pc \notin {"acquire", "invoke"} => stack[i].ninv = 1
    /\ (IsCall(ret) /\ ret.mode = "sync") =>
          (LoopAcquired(ret) /\ ret.ninv = 1 /\ ret.out.kind # "RuntimeError")

C10_Witness ==
    /\ IsCall(ret)
    /\ ret.mode = "sync"
    /\ ret.had = NoneV
    /\ ret.created
    /\ ret.out.tag = "return"

====
